---- MODULE Spec2Model ----
(***************************************************************************)
(* A model of the cli::FlagSet command-line parser (cppflag.hpp).          *)
(*                                                                         *)
(* Text is modelled as a sequence of one-character strings, so that the    *)
(* parser's character tests (arg[0], arg[1], find('='), substr) are        *)
(* computed as the code computes them.  argv is a function on 0..argc-1,   *)
(* as in C++.  A Parse call is the action ParseBegin (the pre-pass), one   *)
(* ParseIter per iteration of the for loop, and ParseReturn (the loop's    *)
(* exit); a return inside the loop body ends the call in ParseIter.        *)
(***************************************************************************)
EXTENDS Integers, Sequences, FiniteSets, TLC

VARIABLES
  flags,          \* FlagSet::flags_      : sequence of Flag records
  index,          \* FlagSet::index_      : name -> position in flags
  short_index,    \* FlagSet::short_index_: alias char -> position in flags
  positional,     \* FlagSet::positional_
  argc, argv,     \* the arguments of the Parse call in progress / last made
  i,              \* Parse's loop variable
  no_more_flags,  \* Parse's local
  result,         \* the ParseResult returned by the last Parse call
  pc,             \* "ready" | "loop" | "returned"
  registered,     \* history: the registration calls made so far, in order
  at,             \* history: index of the token the last iteration examined
  consumed,       \* history: indices taken as a flag's value (argv[++i])
  termAt,         \* history: index of the token that set no_more_flags, or -1
  before,         \* history: flags and positional at the top of the last iteration
  prior,          \* history: outcome a previous Parse call left behind
  assigned,       \* history: positions in flags the Parse call has written
  call            \* the last accessor call made on the FlagSet and its outcome

vars == <<flags, index, short_index, positional, argc, argv, i, no_more_flags,
          result, pc, registered, at, consumed, termAt, before, prior,
          assigned, call>>

-----------------------------------------------------------------------------
(* Bounds of the model.                                                    *)

\* Most tokens after the program name in an argument list of Spec.
MaxArgs == 3
\* Most tokens after the program name in an argument list of SpecReparse.
MaxReparseArgs == 2
MaxAccessArgs == 2
MaxFlags == 2
MaxRegArgs == 1
MaxConvertArgs == 1
MaxTermArgs == 3
MaxProgArgs == 2
MaxRepeatArgs == 3

-----------------------------------------------------------------------------
(* std::string / C string operations, 0-based as in C++.                   *)

NUL == "\\0"
npos == -1

Min(a, b) == IF a < b THEN a ELSE b

\* s[k] of a std::string (s[size()] is the terminating '\0'), argv[i][k].
At(s, k) == IF k < Len(s) THEN s[k + 1] ELSE NUL

\* s.substr(pos)
Substr(s, pos) == SubSeq(s, pos + 1, Len(s))

\* s.substr(pos, n)
SubstrN(s, pos, n) == SubSeq(s, pos + 1, Min(Len(s), pos + n))

\* s.find(c): position of the first c, or npos
Find(s, c) ==
  IF \E k \in 0..(Len(s) - 1) : s[k + 1] = c
    THEN CHOOSE k \in 0..(Len(s) - 1) :
           s[k + 1] = c /\ \A j \in 0..(k - 1) : s[j + 1] # c
    ELSE npos

Upper == <<"A","B","C","D","E","F","G","H","I","J","K","L","M",
           "N","O","P","Q","R","S","T","U","V","W","X","Y","Z">>
Lower == <<"a","b","c","d","e","f","g","h","i","j","k","l","m",
           "n","o","p","q","r","s","t","u","v","w","x","y","z">>

\* std::tolower
ToLower(c) ==
  IF \E k \in 1..Len(Upper) : Upper[k] = c
    THEN Lower[CHOOSE k \in 1..Len(Upper) : Upper[k] = c]
    ELSE c

Digits == <<"0","1","2","3","4","5","6","7","8","9">>
IsDigit(c) == \E k \in 1..Len(Digits) : Digits[k] = c
DigitVal(c) == (CHOOSE k \in 1..Len(Digits) : Digits[k] = c) - 1
IsSpace(c) == c \in {" ", "\t", "\n"}

\* Number of leading characters of s that satisfy isspace.
RECURSIVE SkipSpace(_)
SkipSpace(s) ==
  IF s # <<>> /\ IsSpace(Head(s)) THEN 1 + SkipSpace(Tail(s)) ELSE 0

\* Number of leading characters of s that are decimal digits.
RECURSIVE DigitRun(_)
DigitRun(s) ==
  IF s # <<>> /\ IsDigit(Head(s)) THEN 1 + DigitRun(Tail(s)) ELSE 0

\* A digit string without its leading zeros ("0" for zero).
RECURSIVE StripZeros(_)
StripZeros(d) ==
  IF Len(d) > 1 /\ Head(d) = "0" THEN StripZeros(Tail(d)) ELSE d

\* d <= e for digit strings of equal length.
RECURSIVE DigitsLeq(_, _)
DigitsLeq(d, e) ==
  IF d = <<>> THEN TRUE
  ELSE IF DigitVal(Head(d)) < DigitVal(Head(e)) THEN TRUE
  ELSE IF DigitVal(Head(d)) > DigitVal(Head(e)) THEN FALSE
  ELSE DigitsLeq(Tail(d), Tail(e))

\* |INT64_MAX| and |INT64_MIN| as digit strings.
Int64MaxMag == <<"9","2","2","3","3","7","2","0","3","6","8","5","4","7","7","5","8","0","7">>
Int64MinMag == <<"9","2","2","3","3","7","2","0","3","6","8","5","4","7","7","5","8","0","8">>

\* A stripped magnitude fits the signed 64-bit range.
FitsInt64(neg, mag) ==
  LET lim == IF neg THEN Int64MinMag ELSE Int64MaxMag
  IN  \/ Len(mag) < Len(lim)
      \/ Len(mag) = Len(lim) /\ DigitsLeq(mag, lim)

-----------------------------------------------------------------------------
(* ValueAdapter<T>: a value is [kind, v]; kind is TypeName().  An int64_t  *)
(* is kept as sign and magnitude digits, so that the 64-bit range is       *)
(* decided exactly; a double is kept as sign, integer digits and fraction  *)
(* digits of its decimal text.                                             *)

IntVal(neg, mag) ==
  LET m == StripZeros(mag)
  IN  [kind |-> "int", v |-> [neg |-> neg /\ m # <<"0">>, mag |-> m]]

\* A fraction's digits without its trailing zeros.
RECURSIVE StripTrailingZeros(_)
StripTrailingZeros(d) ==
  IF d # <<>> /\ d[Len(d)] = "0"
    THEN StripTrailingZeros(SubSeq(d, 1, Len(d) - 1))
    ELSE d

FloatVal(neg, ip, fp) ==
  LET a == StripZeros(IF ip = <<>> THEN <<"0">> ELSE ip)
      b == StripTrailingZeros(fp)
  IN  [kind |-> "float",
       v |-> [neg |-> neg /\ ~(a = <<"0">> /\ b = <<>>), ip |-> a, fp |-> b]]

BoolVal(b) == [kind |-> "bool", v |-> b]
StringVal(s) == [kind |-> "string", v |-> s]

\* The text lower-cased character by character (ValueAdapter<bool>::Set).
LowerText(text) == [k \in 1..Len(text) |-> ToLower(text[k])]

TrueWords == { <<"t","r","u","e">>, <<"1">>, <<"y","e","s">>, <<"o","n">> }
FalseWords == { <<"f","a","l","s","e">>, <<"0">>, <<"n","o">>, <<"o","f","f">> }

\* std::stoll(text): leading white space, an optional sign, then the longest
\* run of digits; what follows the digits is ignored.
Stoll(text) ==
  LET s1 == Substr(text, SkipSpace(text))
      signed == s1 # <<>> /\ Head(s1) \in {"+", "-"}
      neg == s1 # <<>> /\ Head(s1) = "-"
      s2 == IF signed THEN Tail(s1) ELSE s1
      n == DigitRun(s2)
      mag == StripZeros(SubSeq(s2, 1, n))
  IN  IF n = 0 THEN [ok |-> FALSE, err |-> <<"not an integer">>]
      ELSE IF ~FitsInt64(neg, mag)
        THEN [ok |-> FALSE, err |-> <<"out of range for int64_t">>]
      ELSE [ok |-> TRUE, value |-> IntVal(neg, mag)]

\* std::stod(text) on decimal text: leading white space, an optional sign,
\* digits with an optional '.' and fraction digits; at least one digit.
Stod(text) ==
  LET s1 == Substr(text, SkipSpace(text))
      signed == s1 # <<>> /\ Head(s1) \in {"+", "-"}
      neg == s1 # <<>> /\ Head(s1) = "-"
      s2 == IF signed THEN Tail(s1) ELSE s1
      n == DigitRun(s2)
      s3 == Substr(s2, n)
      dot == s3 # <<>> /\ Head(s3) = "."
      m == IF dot THEN DigitRun(Tail(s3)) ELSE 0
  IN  IF n + m = 0 THEN [ok |-> FALSE, err |-> <<"not a float">>]
      ELSE [ok |-> TRUE,
            value |-> FloatVal(neg, SubSeq(s2, 1, n),
                               IF dot THEN SubSeq(Tail(s3), 1, m) ELSE <<>>)]

\* ValueAdapter<T>::Set(text, err): [ok, value] or [ok, err]; on failure the
\* stored value is left as it was.
ValueSet(val, text) ==
  IF val.kind = "int" THEN Stoll(text)
  ELSE IF val.kind = "float" THEN Stod(text)
  ELSE IF val.kind = "bool" THEN
    IF LowerText(text) \in TrueWords THEN [ok |-> TRUE, value |-> BoolVal(TRUE)]
    ELSE IF LowerText(text) \in FalseWords
      THEN [ok |-> TRUE, value |-> BoolVal(FALSE)]
    ELSE [ok |-> FALSE,
          err |-> <<"invalid boolean value, accepts true/false, 1/0, yes/no, on/off">>]
  ELSE [ok |-> TRUE, value |-> StringVal(text)]

\* The decimal digit string d plus one.
RECURSIVE Increment(_)
Increment(d) ==
  IF d = <<>> THEN <<"1">>
  ELSE IF d[Len(d)] = "9"
    THEN Increment(SubSeq(d, 1, Len(d) - 1)) \o <<"0">>
  ELSE SubSeq(d, 1, Len(d) - 1) \o <<Digits[DigitVal(d[Len(d)]) + 2]>>

\* The number of fraction digits std::to_string(double) prints ("%f").
FractionDigits == 6

\* std::to_string(double): sign, integer digits, '.', and the fraction
\* rounded to FractionDigits digits.  (For a text exactly half way between
\* two printed values the double nearest to it decides the direction; the
\* model rounds it up, and draws no such text.)
FloatToString(v) ==
  LET pad == [k \in 1..FractionDigits |-> "0"]
      kept == SubSeq(v.fp \o pad, 1, FractionDigits)
      up == Len(v.fp) > FractionDigits
              /\ DigitVal(v.fp[FractionDigits + 1]) >= 5
      d == IF up THEN Increment(v.ip \o kept) ELSE v.ip \o kept
  IN  (IF v.neg THEN <<"-">> ELSE <<>>)
        \o SubSeq(d, 1, Len(d) - FractionDigits) \o <<".">>
        \o SubSeq(d, Len(d) - FractionDigits + 1, Len(d))

\* ValueAdapter<T>::ToString()
ValueToString(val) ==
  IF val.kind = "bool"
    THEN (IF val.v THEN <<"t","r","u","e">> ELSE <<"f","a","l","s","e">>)
  ELSE IF val.kind = "string" THEN val.v
  ELSE IF val.kind = "int"
    THEN (IF val.v.neg THEN <<"-">> ELSE <<>>) \o val.v.mag
  ELSE FloatToString(val.v)

\* ValueAdapter<T>::clone()
Clone(val) == [kind |-> val.kind, v |-> val.v]

\* A dynamic_cast that never succeeds.
IsBoolAdapterNever(val) == FALSE

\* dynamic_cast<ValueAdapter<bool> *>(value) is non-null
IsBoolAdapter(val) == val.kind = "bool"

-----------------------------------------------------------------------------
(* ParseResult                                                             *)

NoText == <<>>
ResultOk == [kind |-> "None", flag |-> NoText, message |-> NoText]
MkResult(kind, flag, message) == [kind |-> kind, flag |-> flag, message |-> message]
ErrorKinds == {"UnknownFlag", "MissingValue", "InvalidValue"}

-----------------------------------------------------------------------------
(* FlagSet::AddFlag and the constructor.  A Flag* is the flag's position   *)
(* in flags_ (flags_ only grows, so positions are stable).                 *)

NoShort == NUL

\* A Flag that starts marked as set.
MkFlagMarked(name, short_name, defaultVal) ==
  [name |-> name, short_name |-> short_name,
   value |-> defaultVal, default_value |-> Clone(defaultVal), set |-> TRUE]

MkFlag(name, short_name, defaultVal) ==
  [name |-> name, short_name |-> short_name,
   value |-> defaultVal, default_value |-> Clone(defaultVal), set |-> FALSE]

\* m.emplace(k, v): an entry already present is kept.
MapPutKeepFirst(m, k, v) ==
  [x \in (DOMAIN m) \cup {k} |-> IF x \in DOMAIN m THEN m[x] ELSE v]

\* m[k] = v of an unordered_map modelled as a function
MapPut(m, k, v) == [x \in (DOMAIN m) \cup {k} |-> IF x = k THEN v ELSE m[x]]
EmptyMap == [x \in {} |-> 0]

\* The FlagSet after AddFlag<T>(name, short_name, defaultVal, usage).
AddFlag(fs, name, short_name, defaultVal) ==
  LET fl == Append(fs.flags, MkFlag(name, short_name, defaultVal))
      ptr == Len(fl)
  IN  [flags |-> fl,
       index |-> MapPut(fs.index, name, ptr),
       short_index |-> IF short_name # NoShort
                         THEN MapPut(fs.short_index, short_name, ptr)
                         ELSE fs.short_index]

HelpName == <<"h","e","l","p">>

\* FlagSet::FlagSet: Bool("help", false, "show this help message", 'h')
Constructed ==
  AddFlag([flags |-> <<>>, index |-> EmptyMap, short_index |-> EmptyMap],
          HelpName, "h", BoolVal(FALSE))

\* The FlagSet a fresh construction followed by the registrations regs gives.
RECURSIVE Replay(_)
Replay(regs) ==
  IF regs = <<>> THEN Constructed
  ELSE LET r == regs[Len(regs)]
       IN  AddFlag(Replay(SubSeq(regs, 1, Len(regs) - 1)),
                   r.name, r.short_name, r.defaultVal)

-----------------------------------------------------------------------------
(* FlagSet::Parse.  A parse state is the part of the FlagSet and of        *)
(* Parse's locals that the loop reads and writes:                          *)
(*   [flags, positional, i, no_more_flags, returned, result].              *)

\* An assignment that a flag already marked set ignores.
AssignOnce(fl, ptr, val) ==
  IF fl[ptr].set THEN fl
  ELSE [fl EXCEPT ![ptr] = [@ EXCEPT !.value = val, !.set = TRUE]]

\* An assignment that also overwrites the default.
AssignBoth(fl, ptr, val) ==
  [fl EXCEPT ![ptr] = [@ EXCEPT !.value = val, !.default_value = val,
                                !.set = TRUE]]

\* flag->value->Set succeeded: the value is replaced, flag->set = true.
Assign(fl, ptr, val) ==
  [fl EXCEPT ![ptr] = [@ EXCEPT !.value = val, !.set = TRUE]]

\* A continue after which the loop's ++i leaves i where it was.
ContinueStays(st) == [st EXCEPT !.i = st.i - 1]

Continue(st) == st

\* A return that also clears the positional list.
ReturnClears(st, res) ==
  [st EXCEPT !.returned = TRUE, !.result = res, !.positional = <<>>]

Return(st, res) == [st EXCEPT !.returned = TRUE, !.result = res]

\* PrePass without the loop over flags_ (lines 249-252 left out).
PrePassKeepsFlags(fl) ==
  [flags |-> fl, positional |-> <<>>, i |-> 1, no_more_flags |-> FALSE,
   returned |-> FALSE, result |-> ResultOk]

\* A pre-pass after which the loop starts at argv[0].
PrePassFromZero(fl) ==
  [flags |-> [k \in 1..Len(fl) |->
                [fl[k] EXCEPT !.value = Clone(fl[k].default_value),
                              !.set = FALSE]],
   positional |-> <<>>, i |-> 0, no_more_flags |-> FALSE,
   returned |-> FALSE, result |-> ResultOk]

\* Lines 246-252: positional_.clear(), no_more_flags = false, every flag's
\* value reset to a clone of its default and its set marker cleared; i = 1.
PrePass(fl) ==
  [flags |-> [k \in 1..Len(fl) |->
                [fl[k] EXCEPT !.value = Clone(fl[k].default_value),
                              !.set = FALSE]],
   positional |-> <<>>,
   i |-> 1,
   no_more_flags |-> FALSE,
   returned |-> FALSE,
   result |-> ResultOk]

\* IsHelpArg that knows the long spelling only.
IsHelpArgLongOnly(arg) == arg = <<"-","-">> \o HelpName

\* arg == "--help" || arg == "-h" || arg == "-help"
IsHelpArg(arg) ==
  \/ arg = <<"-","-">> \o HelpName
  \/ arg = <<"-","h">>
  \/ arg = <<"-">> \o HelpName

\* SetFlag with flag->set = true placed before the call of Set.
SetFlagMarksFirst(st, ptr, value, shown, quoted) ==
  LET r == ValueSet(st.flags[ptr].value, value)
      marked == [st EXCEPT !.flags[ptr].set = TRUE]
  IN  IF ~r.ok
        THEN Return(marked, MkResult("InvalidValue", shown,
               <<"invalid value for flag '">> \o quoted \o <<"': ">> \o r.err))
        ELSE Continue([st EXCEPT !.flags = Assign(st.flags, ptr, r.value)])

\* Lines 304-317 and 348-354: Set the flag's value from the text; on failure
\* return InvalidValue, naming the flag by shown and quoting it as quoted.
SetFlag(st, ptr, value, shown, quoted) ==
  LET r == ValueSet(st.flags[ptr].value, value)
  IN  IF ~r.ok
        THEN Return(st, MkResult("InvalidValue", shown,
               <<"invalid value for flag '">> \o quoted \o <<"': ">> \o r.err))
        ELSE Continue([st EXCEPT !.flags = Assign(st.flags, ptr, r.value)])

\* Line 295 read without its test of the next token's first character.
NextIsValueAny(ac, av, k) == k + 1 < ac

\* Line 295: i + 1 < argc && argv[i + 1][0] != '-'
NextIsValue(ac, av, k) == k + 1 < ac /\ At(av[k + 1], 0) # "-"

\* Line 339 with the long option's test of the next token added.
ShortNextIsValueGuarded(ac, av, k) == k + 1 < ac /\ At(av[k + 1], 0) # "-"

\* Line 339: i + 1 < argc
ShortNextIsValue(ac, av, k) == k + 1 < ac

\* Line 333 off by one: the alias character kept in the value.
AttachedValueFromAlias(arg) == Substr(arg, 1)

\* Line 333: value = arg.substr(2)
AttachedValue(arg) == Substr(arg, 2)

\* Lines 285 and 289 without the split at '='.
FlagNameWhole(arg, equal_pos) == Substr(arg, 2)

\* Lines 285 and 289: the flag name of a long option.
FlagNameOf(arg, equal_pos) ==
  IF equal_pos # npos THEN SubstrN(arg, 2, equal_pos - 2) ELSE Substr(arg, 2)

\* Lines 278-318: a long option, --flag=value or --flag value.
LongOption(index_, ac, av, st, arg) ==
  LET equal_pos == Find(arg, "=")
      flag_name == FlagNameOf(arg, equal_pos)
      found == flag_name \in DOMAIN index_
      isBool == found /\ IsBoolAdapter(st.flags[index_[flag_name]].value)
      takesNext == NextIsValue(ac, av, st.i)
  IN  IF equal_pos = npos /\ found /\ ~isBool /\ ~takesNext
        THEN Return(st, MkResult("MissingValue", flag_name,
               <<"flag '">> \o flag_name \o <<"' needs a value">>))
      ELSE
        LET st1 == IF equal_pos = npos /\ found /\ ~isBool
                     THEN [st EXCEPT !.i = st.i + 1]
                     ELSE st
            value == IF equal_pos # npos THEN Substr(arg, equal_pos + 1)
                     ELSE IF ~found THEN <<>>
                     ELSE IF isBool THEN <<"t","r","u","e">>
                     ELSE av[st1.i]
        IN  IF ~found
              THEN Return(st1, MkResult("UnknownFlag", flag_name,
                     <<"unknown flag: ">> \o flag_name))
              ELSE SetFlag(st1, index_[flag_name], value, flag_name, flag_name)

\* Lines 320-355: a short option, -f value or -fvalue.
ShortOption(fl, short_index_, ac, av, st, arg) ==
  LET flag_char == arg[2]
  IN  IF flag_char \notin DOMAIN short_index_
        THEN Return(st, MkResult("UnknownFlag", <<flag_char>>,
               <<"unknown flag: -">> \o <<flag_char>>))
      ELSE
        LET ptr == short_index_[flag_char]
            isBool == IsBoolAdapter(st.flags[ptr].value)
        IN  IF Len(arg) > 2
              THEN SetFlag(st, ptr, AttachedValue(arg), fl[ptr].name,
                           <<"-", flag_char>>)
            ELSE IF isBool
              THEN SetFlag(st, ptr, <<"t","r","u","e">>, fl[ptr].name,
                           <<"-", flag_char>>)
            ELSE IF ShortNextIsValue(ac, av, st.i)
              THEN SetFlag([st EXCEPT !.i = st.i + 1], ptr, av[st.i + 1],
                           fl[ptr].name, <<"-", flag_char>>)
            ELSE Return(st, MkResult("MissingValue", fl[ptr].name,
                   <<"flag '-">> \o <<flag_char>> \o <<"' needs a value">>))

\* Lines 255-355: the body of the for loop, for the token argv[i].
LoopBody(index_, short_index_, ac, av, st) ==
  LET arg == av[st.i]
  IN  IF IsHelpArg(arg)
        THEN Return(st, MkResult("HelpRequested", NoText, NoText))
      ELSE IF st.no_more_flags
        THEN Continue([st EXCEPT !.positional = Append(@, arg)])
      ELSE IF arg = <<"-","-">>
        THEN Continue([st EXCEPT !.no_more_flags = TRUE])
      ELSE IF At(arg, 0) # "-"
        THEN Continue([st EXCEPT !.positional = Append(@, arg)])
      ELSE IF Len(arg) > 2 /\ At(arg, 1) = "-"
        THEN LongOption(index_, ac, av, st, arg)
      ELSE IF Len(arg) > 1 /\ At(arg, 0) = "-" /\ At(arg, 1) # "-"
        THEN ShortOption(st.flags, short_index_, ac, av, st, arg)
      ELSE Continue(st)

\* Lines 254-358: the for loop from parse state st to the return.
RECURSIVE RunLoop(_, _, _, _, _)
RunLoop(index_, short_index_, ac, av, st) ==
  IF st.returned THEN st
  ELSE IF ~(st.i < ac) THEN Return(st, ResultOk)
  ELSE LET nx == LoopBody(index_, short_index_, ac, av, st)
       IN  RunLoop(index_, short_index_, ac, av,
                   IF nx.returned THEN nx ELSE [nx EXCEPT !.i = nx.i + 1])

\* argv of a call whose arguments are the sequence args (args[1] is argv[0]).
ArgvOf(args) == [k \in 0..(Len(args) - 1) |-> args[k + 1]]

\* What Parse(args) returns and leaves on a FlagSet constructed afresh with
\* the registrations regs.
ParseFresh(regs, args) ==
  LET fs == Replay(regs)
  IN  RunLoop(fs.index, fs.short_index, Len(args), ArgvOf(args),
              PrePass(fs.flags))

-----------------------------------------------------------------------------
(* The accessors: FlagSet::Lookup, FlagSet::IsSet, Flag::As<T> and the     *)
(* free function Get<T>.  A requested type T is named by the kind of       *)
(* ValueAdapter<T>: int64_t, double, bool and std::string.                 *)

nullptr == 0

\* index_.find(name): the Flag* of the entry, or nullptr.
Lookup(index_, name) ==
  IF name \in DOMAIN index_ THEN index_[name] ELSE nullptr

\* An IsSet that answers whether the name is registered.
IsSetRegistered(fl, index_, name) == Lookup(index_, name) # nullptr

\* flag && flag->set
IsSet(fl, index_, name) ==
  LET flag == Lookup(index_, name)
  IN  flag # nullptr /\ fl[flag].set

\* T{}: the value-initialised T.
Zero(T) ==
  IF T = "int" THEN IntVal(FALSE, <<"0">>)
  ELSE IF T = "float" THEN FloatVal(FALSE, <<"0">>, <<>>)
  ELSE IF T = "bool" THEN BoolVal(FALSE)
  ELSE StringVal(<<>>)

\* An As<T> that answers a failed cast with T{}.
AsSilent(f, T) ==
  [outcome |-> "value", value |-> IF f.value.kind = T THEN f.value ELSE Zero(T)]

\* Flag::As<T>(): the dynamic_cast to ValueAdapter<T> is null when the stored
\* value is of another kind, and then std::bad_cast is thrown.
As(f, T) ==
  IF f.value.kind # T THEN [outcome |-> "bad_cast"]
  ELSE [outcome |-> "value", value |-> f.value]

\* Get<T>(fs, name)
Get(fl, index_, T, name) ==
  LET f == Lookup(index_, name)
  IN  IF f # nullptr THEN As(fl[f], T)
      ELSE [outcome |-> "value", value |-> Zero(T)]

-----------------------------------------------------------------------------
(* The registrations of the demonstration program and the argument lists   *)
(* the model draws from.                                                   *)

PortName == <<"p","o","r","t">>
DebugName == <<"d","e","b","u","g">>
RatioName == <<"r","a","t","i","o">>
ModeName == <<"m","o","d","e">>
BogusName == <<"b","o","g","u","s">>
ProgName == <<"p","r","o","g">>

\* fs.Int("port", 8080, .., 'p'); fs.Bool("debug", false, .., 'd');
\* fs.Float("ratio", 1.0f, .., 'r'); fs.String("mode", "fast", .., 'm')
DemoRegistrations ==
  << [name |-> PortName, short_name |-> "p",
      defaultVal |-> IntVal(FALSE, <<"8","0","8","0">>)],
     [name |-> DebugName, short_name |-> "d", defaultVal |-> BoolVal(FALSE)],
     [name |-> RatioName, short_name |-> "r",
      defaultVal |-> FloatVal(FALSE, <<"1">>, <<>>)],
     [name |-> ModeName, short_name |-> "m",
      defaultVal |-> StringVal(<<"f","a","s","t">>)] >>

Long(n) == <<"-","-">> \o n
LongEq(n, v) == <<"-","-">> \o n \o <<"=">> \o v
Short(c) == <<"-", c>>
ShortV(c, v) == <<"-", c>> \o v

Terminator == <<"-","-">>
Nine == <<"9">>
FalseWord == <<"f","a","l","s","e">>
EmptyText == <<>>
LoneDash == <<"-">>

Tokens ==
  { Long(HelpName), Short("h"), Terminator,
    FalseWord, Nine, EmptyText, LoneDash, Short("9"),
    Long(PortName), LongEq(PortName, Nine), Short("p"), ShortV("p", Nine),
    Long(DebugName), Short("d"),
    Long(ModeName), LongEq(ModeName, FalseWord),
    Short("m"), ShortV("m", FalseWord),
    Long(BogusName), LongEq(BogusName, Nine) }

ReparseTokens ==
  { Long(HelpName), FalseWord,
    LongEq(PortName, Nine), Short("p"), Short("d"), Long(BogusName) }

\* The argument lists of at most n tokens from toks after the program name.
ArgListsOf(toks, n) ==
  { <<ProgName>> \o t : t \in UNION { [1..k -> toks] : k \in 0..n } }

ArgLists == ArgListsOf(Tokens, MaxArgs)

\* The value texts given to the four demonstration flags in the form
\* --name=text.
IntTexts ==
  { Nine, <<"-","9">>, <<"1","2","a","b","c">>, EmptyText, <<"x">>,
    Int64MaxMag, Int64MinMag, <<"-">> \o Int64MinMag,
    <<"-">> \o SubSeq(Int64MinMag, 1, 18) \o <<"9">> }
FloatTexts ==
  { <<"1",".","5">>, <<"2">>, <<"x">>,
    <<"0",".","0","0","0","0","0","0","1">>,
    <<"-","0",".","1","2","3","4","5","6","7">> }
BoolTexts == { <<"Y","e","s">>, <<"0">>, <<"x">> }
StringTexts == { FalseWord, EmptyText }
ConvertTokens ==
  { LongEq(PortName, t) : t \in IntTexts }
    \cup { LongEq(RatioName, t) : t \in FloatTexts }
    \cup { LongEq(DebugName, t) : t \in BoolTexts }
    \cup { LongEq(ModeName, t) : t \in StringTexts }
ConvertArgLists == ArgListsOf(ConvertTokens, MaxConvertArgs)

\* Tokens that take every way through the loop body: help, terminator,
\* positional, value by lookahead, bare boolean, unknown flag.
TermTokens ==
  { Long(HelpName), Terminator, FalseWord, Nine,
    Long(PortName), Short("d"), Long(BogusName) }
TermArgLists == ArgListsOf(TermTokens, MaxTermArgs)

\* Tokens that assign port several times, by its long name and its alias,
\* with the values 9 and 8 and the text "false" that is no integer.
Eight == <<"8">>
RepeatTokens ==
  { LongEq(PortName, Nine), ShortV("p", Eight), LongEq(PortName, FalseWord),
    Short("p"), Nine, Short("d") }
RepeatArgLists == ArgListsOf(RepeatTokens, MaxRepeatArgs)

\* What argv[0] may be, and the tokens after it.
FirstTokens ==
  { ProgName, Long(HelpName), Short("h"), Terminator, EmptyText,
    LongEq(PortName, Nine), Long(BogusName), FalseWord }
RestTokens == { FalseWord, Nine, Short("d"), Long(PortName) }
ProgArgLists ==
  { <<f>> \o t : f \in FirstTokens,
                 t \in UNION { [1..k -> RestTokens] : k \in 0..MaxProgArgs } }

\* Registrations a program may make in any order and number: two of the
\* name "port" with different kinds, two of the alias 'p'.
RegMenu ==
  { [name |-> PortName, short_name |-> "p",
     defaultVal |-> IntVal(FALSE, <<"8","0","8","0">>)],
    [name |-> PortName, short_name |-> NoShort,
     defaultVal |-> StringVal(<<"f","a","s","t">>)],
    [name |-> DebugName, short_name |-> "p", defaultVal |-> BoolVal(FALSE)] }
RegTokens ==
  { LongEq(PortName, Nine), LongEq(PortName, FalseWord),
    ShortV("p", Nine), Long(DebugName) }
RegArgLists == ArgListsOf(RegTokens, MaxRegArgs)

\* The inputs of the accessor calls and the argument lists parsed between
\* them; "--debug=false" assigns debug its default value.
RequestedTypes == {"int", "float", "bool", "string"}
AccessNames ==
  {HelpName, PortName, DebugName, RatioName, ModeName, BogusName}
AccessTokens ==
  { LongEq(DebugName, FalseWord), LongEq(PortName, Nine), Long(BogusName) }
AccessArgLists == ArgListsOf(AccessTokens, MaxAccessArgs)
ReparseArgLists == ArgListsOf(ReparseTokens, MaxReparseArgs)

-----------------------------------------------------------------------------
(* The state machine.                                                      *)

NoResult == [kind |-> "Pending", flag |-> NoText, message |-> NoText]
NoCall == [op |-> "none"]

\* The FlagSet's state differs from the one construction and registration
\* leave: a Parse call has left a set marker, a positional or a value behind.
Dirty ==
  \/ positional # <<>>
  \/ \E k \in 1..Len(flags) :
       flags[k].set \/ flags[k].value # flags[k].default_value

Init ==
  /\ flags = Constructed.flags
  /\ index = Constructed.index
  /\ short_index = Constructed.short_index
  /\ positional = <<>>
  /\ argc = 0
  /\ argv = ArgvOf(<<>>)
  /\ i = 0
  /\ no_more_flags = FALSE
  /\ result = NoResult
  /\ pc = "ready"
  /\ registered = <<>>
  /\ at = 0
  /\ consumed = {}
  /\ termAt = 0
  /\ before = [flags |-> Constructed.flags, positional |-> <<>>]
  /\ prior = [kind |-> "NoParse", dirty |-> FALSE]
  /\ assigned = {}
  /\ call = NoCall

\* FlagSet::Int / Float / Bool / String: AddFlag<T>(name, short_name, defaultVal, usage)
Register(r) ==
  /\ pc \in {"ready", "returned"}
  /\ LET fs == AddFlag([flags |-> flags, index |-> index,
                        short_index |-> short_index],
                       r.name, r.short_name, r.defaultVal)
     IN  /\ flags' = fs.flags
         /\ index' = fs.index
         /\ short_index' = fs.short_index
  /\ registered' = Append(registered, r)
  /\ call' = NoCall
  /\ UNCHANGED <<positional, argc, argv, i, no_more_flags, result, pc,
                 at, consumed, termAt, before, prior, assigned>>

\* The demonstration program's next registration.
RegisterDemo ==
  /\ Len(registered) < Len(DemoRegistrations)
  /\ Register(DemoRegistrations[Len(registered) + 1])

\* Parse is entered with the arguments args: the pre-pass, up to the loop's
\* first test.
ParseBegin(args) ==
  /\ LET st == PrePass(flags)
     IN  /\ flags' = st.flags
         /\ positional' = st.positional
         /\ i' = st.i
         /\ no_more_flags' = st.no_more_flags
         /\ before' = [flags |-> st.flags, positional |-> st.positional]
  /\ argc' = Len(args)
  /\ argv' = ArgvOf(args)
  /\ result' = NoResult
  /\ pc' = "loop"
  /\ at' = 0
  /\ consumed' = {}
  /\ termAt' = 0
  /\ prior' = IF pc = "returned"
                THEN [kind |-> result.kind, dirty |-> Dirty]
                ELSE [kind |-> "NoParse", dirty |-> FALSE]
  /\ assigned' = {}
  /\ call' = NoCall
  /\ UNCHANGED <<index, short_index, registered>>

\* One iteration of the for loop: the body for argv[i], then either the
\* return it made or ++i.
ParseIter ==
  /\ pc = "loop"
  /\ i < argc
  /\ LET st == [flags |-> flags, positional |-> positional, i |-> i,
                no_more_flags |-> no_more_flags, returned |-> FALSE,
                result |-> ResultOk]
     IN  \E nx \in {LoopBody(index, short_index, argc, argv, st)} :
         /\ flags' = nx.flags
         /\ positional' = nx.positional
         /\ no_more_flags' = nx.no_more_flags
         /\ i' = IF nx.returned THEN nx.i ELSE nx.i + 1
         /\ pc' = IF nx.returned THEN "returned" ELSE "loop"
         /\ result' = IF nx.returned THEN nx.result ELSE result
         /\ consumed' = IF nx.i # i THEN consumed \cup {nx.i} ELSE consumed
         /\ termAt' = IF nx.no_more_flags /\ ~no_more_flags THEN i ELSE termAt
         /\ assigned' = assigned \cup
                          { k \in 1..Len(flags) : nx.flags[k] # flags[k] }
  /\ at' = i
  /\ before' = [flags |-> flags, positional |-> positional]
  /\ UNCHANGED <<index, short_index, argc, argv, registered, prior, call>>

\* Line 358: the loop ran off the end of argv; return ParseResult{}.
ParseReturn ==
  /\ pc = "loop"
  /\ ~(i < argc)
  /\ result' = ResultOk
  /\ pc' = "returned"
  /\ UNCHANGED <<flags, index, short_index, positional, argc, argv, i,
                 no_more_flags, registered, at, consumed, termAt, before, prior,
                 assigned, call>>

\* The demonstration program: registrations, then one Parse call.
ParseOnce ==
  /\ pc = "ready"
  /\ Len(registered) = Len(DemoRegistrations)
  /\ \E args \in ArgLists : ParseBegin(args)

\* Parse called again and again on the same FlagSet.
ParseAgain ==
  /\ pc \in {"ready", "returned"}
  /\ Len(registered) = Len(DemoRegistrations)
  /\ \E args \in ReparseArgLists : ParseBegin(args)

Next == RegisterDemo \/ ParseOnce \/ ParseIter \/ ParseReturn
Spec == Init /\ [][Next]_vars

\* Parse called between accessor calls.
ParseAccess ==
  /\ pc \in {"ready", "returned"}
  /\ Len(registered) = Len(DemoRegistrations)
  /\ \E args \in AccessArgLists : ParseBegin(args)

\* The caller's Get<T>(fs, name); call holds the last accessor call made on
\* the FlagSet as it is now.
GetCall ==
  /\ pc \in {"ready", "returned"}
  /\ \E T \in RequestedTypes, name \in AccessNames :
       call' = [op |-> "Get", T |-> T, name |-> name,
                ret |-> Get(flags, index, T, name)]
  /\ UNCHANGED <<flags, index, short_index, positional, argc, argv, i,
                 no_more_flags, result, pc, registered, at, consumed, termAt,
                 before, prior, assigned>>

\* The caller's fs.IsSet(name)
IsSetCall ==
  /\ pc \in {"ready", "returned"}
  /\ \E name \in AccessNames :
       call' = [op |-> "IsSet", name |-> name,
                ret |-> IsSet(flags, index, name)]
  /\ UNCHANGED <<flags, index, short_index, positional, argc, argv, i,
                 no_more_flags, result, pc, registered, at, consumed, termAt,
                 before, prior, assigned>>

\* A program that registers any of RegMenu, before and between Parse calls.
RegisterAny ==
  /\ Len(registered) < MaxFlags
  /\ \E r \in RegMenu : Register(r)

ParseReg ==
  /\ pc \in {"ready", "returned"}
  /\ \E args \in RegArgLists : ParseBegin(args)

\* One Parse call over value texts.
ParseConvert ==
  /\ pc = "ready"
  /\ Len(registered) = Len(DemoRegistrations)
  /\ \E args \in ConvertArgLists : ParseBegin(args)

\* The caller's flag->value->ToString() on one of the registered flags.
ToStringCall ==
  /\ pc \in {"ready", "returned"}
  /\ \E k \in 1..Len(flags) :
       call' = [op |-> "ToString", flag |-> k,
                ret |-> ValueToString(flags[k].value)]
  /\ UNCHANGED <<flags, index, short_index, positional, argc, argv, i,
                 no_more_flags, result, pc, registered, at, consumed, termAt,
                 before, prior, assigned>>

NextReparse == RegisterDemo \/ ParseAgain \/ ParseIter \/ ParseReturn
SpecReparse == Init /\ [][NextReparse]_vars

NextAccess ==
  RegisterDemo \/ ParseAccess \/ ParseIter \/ ParseReturn \/ GetCall
    \/ IsSetCall
SpecAccess == Init /\ [][NextAccess]_vars

NextConvert ==
  RegisterDemo \/ ParseConvert \/ ParseIter \/ ParseReturn \/ ToStringCall
SpecConvert == Init /\ [][NextConvert]_vars

\* One Parse call; Parse is a sequential loop that, once entered, keeps
\* taking its next step until it returns.
ParseTerm ==
  /\ pc = "ready"
  /\ Len(registered) = Len(DemoRegistrations)
  /\ \E args \in TermArgLists : ParseBegin(args)

NextTerm == RegisterDemo \/ ParseTerm \/ ParseIter \/ ParseReturn
SpecTerm ==
  Init /\ [][NextTerm]_vars /\ WF_vars(ParseIter) /\ WF_vars(ParseReturn)

\* One Parse call whose argv[0] is any token.
ParseProg ==
  /\ pc = "ready"
  /\ Len(registered) = Len(DemoRegistrations)
  /\ \E args \in ProgArgLists : ParseBegin(args)

NextProg == RegisterDemo \/ ParseProg \/ ParseIter \/ ParseReturn
SpecProg == Init /\ [][NextProg]_vars

\* One Parse call over repeated assignments.
ParseRepeat ==
  /\ pc = "ready"
  /\ Len(registered) = Len(DemoRegistrations)
  /\ \E args \in RepeatArgLists : ParseBegin(args)

NextRepeat == RegisterDemo \/ ParseRepeat \/ ParseIter \/ ParseReturn
SpecRepeat == Init /\ [][NextRepeat]_vars

NextRegister == RegisterAny \/ ParseReg \/ ParseIter \/ ParseReturn
SpecRegister == Init /\ [][NextRegister]_vars

-----------------------------------------------------------------------------
(* Vocabulary of the properties.                                           *)

\* The argument list of the last Parse call as a sequence (args[1] is argv[0]).
ArgsSeq == [k \in 1..argc |-> argv[k - 1]]

Returned == pc = "returned"
InParse == pc \in {"loop", "returned"} /\ at >= 1

\* The position in flags the name index gives a registered name.
PortFlag == index[PortName]
DebugFlag == index[DebugName]
ModeFlag == index[ModeName]

\* Flag k has its default value and is not marked set.
AtDefault(k) == ~flags[k].set /\ flags[k].value = flags[k].default_value

\* The two help spellings of the specification.
IsHelpToken(tok) == tok \in { Long(HelpName), Short("h") }

\* The last iteration examined its token while still scanning for flags.
ExaminedAsFlag == InParse /\ (termAt = 0 \/ termAt = at)

-----------------------------------------------------------------------------
(* C1: after Parse(A) then Parse(B) on one FlagSet, the result, every      *)
(* flag's value and set marker and the positional list are those Parse(B)  *)
(* gives on a FlagSet constructed afresh with the same registrations,      *)
(* whatever Parse(A) returned.                                             *)
C1_ReparseEqualsFresh ==
  Returned =>
    LET fresh == ParseFresh(registered, ArgsSeq)
    IN  /\ result = fresh.result
        /\ flags = fresh.flags
        /\ positional = fresh.positional

\* A failed Parse left a set marker or positional behind, and the next call
\* returned success with one positional and every flag at its default.
C1_Witness ==
  /\ Returned
  /\ prior.kind \in ErrorKinds
  /\ prior.dirty
  /\ result.kind = "None"
  /\ positional = <<FalseWord>>
  /\ \A k \in 1..Len(flags) : AtDefault(k)

-----------------------------------------------------------------------------
(* C2 as stated: a help token (--help or -h) at any position before a --   *)
(* token, with no error on an earlier token, makes Parse return            *)
(* HelpRequested at or before that token.                                  *)
C2_HelpAnywhereHalts ==
  Returned =>
    \A k \in 1..(argc - 1) :
      ( /\ IsHelpToken(argv[k])
        /\ \A j \in 1..(k - 1) : argv[j] # Terminator
        /\ ~(result.kind \in ErrorKinds /\ at < k) )
      => (result.kind = "HelpRequested" /\ at <= k)

(* C2 as amended: the same, for every help token that was not taken as the *)
(* value of the two-character short alias directly before it.              *)
C2_HelpSeenHalts ==
  Returned =>
    \A k \in 1..(argc - 1) :
      ( /\ IsHelpToken(argv[k])
        /\ \A j \in 1..(k - 1) : argv[j] # Terminator
        /\ k \notin consumed
        /\ ~(result.kind \in ErrorKinds /\ at < k) )
      => (result.kind = "HelpRequested" /\ at <= k)

\* "--port 9 --help": help directly after a long flag and its value.
C2_Witness ==
  /\ Returned
  /\ result.kind = "HelpRequested"
  /\ at = 3
  /\ argv[1] = Long(PortName)
  /\ consumed = {2}
  /\ argv[3] = Long(HelpName)

-----------------------------------------------------------------------------
(* C3: whenever Parse returns HelpRequested, no flag is marked set and     *)
(* every flag holds its default value.                                     *)
C3_HelpLeavesDefaults ==
  (Returned /\ result.kind = "HelpRequested") =>
    \A k \in 1..Len(flags) : AtDefault(k)

-----------------------------------------------------------------------------
(* C4: once a bare -- has been seen while scanning for flags, the -- is    *)
(* not added to the positional list, and every later token is appended to  *)
(* the positional list, changes no flag and gives no error or help result. *)
C4_AfterTerminatorAllPositional ==
  (InParse /\ termAt # 0) =>
    /\ result.kind \in {"Pending", "None"}
    /\ flags = before.flags
    /\ positional = IF at = termAt THEN before.positional
                    ELSE Append(before.positional, argv[at])

-----------------------------------------------------------------------------
\* The four spellings of "flag n, alias a, value text V".
FormLists(n, a, V) ==
  { <<LongEq(n, V)>>, <<Long(n), V>>, <<ShortV(a, V)>>, <<Short(a), V>> }

ValueTexts == { Nine, FalseWord, EmptyText }

\* The last Parse call was given one of the four spellings for flag k and V.
GivenForm(k, V) ==
  ArgsSeq \in { <<ProgName>> \o L :
                L \in FormLists(flags[k].name, flags[k].short_name, V) }

\* Flag k holds the value V converts to and is the only flag assigned.
OnlyAssigned(k, val) ==
  /\ result = ResultOk
  /\ flags[k].set
  /\ flags[k].value = val
  /\ \A j \in 1..Len(flags) : j # k => AtDefault(j)
  /\ positional = <<>>

(* C5 as stated: for a non-boolean flag N with alias a and a value text V  *)
(* that does not start with '-' and that the flag's kind accepts, each of  *)
(* --N=V, --N V, -aV, -a V parses successfully to the same value, marks    *)
(* the flag set, leaves the other flags alone and the positionals empty.   *)
C5_FourFormsAgree ==
  Returned =>
    \A k \in 1..Len(flags) : \A V \in ValueTexts :
      ( /\ flags[k].default_value.kind # "bool"
        /\ At(V, 0) # "-"
        /\ ValueSet(flags[k].default_value, V).ok
        /\ GivenForm(k, V) )
      => OnlyAssigned(k, ValueSet(flags[k].default_value, V).value)

(* C5 as amended: the same for a value text V that is not empty and a flag  *)
(* that the name index gives for N and the alias index gives for a, where  *)
(* N and a are not the help spellings.                                     *)
C5_FourFormsAgreeNonEmpty ==
  Returned =>
    \A k \in 1..Len(flags) : \A V \in ValueTexts :
      ( /\ flags[k].default_value.kind # "bool"
        /\ V # EmptyText
        /\ flags[k].name # HelpName /\ index[flags[k].name] = k
        /\ flags[k].short_name \in DOMAIN short_index
        /\ flags[k].short_name # "h" /\ short_index[flags[k].short_name] = k
        /\ At(V, 0) # "-"
        /\ ValueSet(flags[k].default_value, V).ok
        /\ GivenForm(k, V) )
      => OnlyAssigned(k, ValueSet(flags[k].default_value, V).value)

\* "-mfalse": the attached spelling gave the string flag the value "false".
C5_Witness ==
  /\ Returned
  /\ ArgsSeq = <<ProgName, ShortV("m", FalseWord)>>
  /\ OnlyAssigned(ModeFlag, StringVal(FalseWord))

-----------------------------------------------------------------------------
\* The last iteration changed no flag and no positional and consumed nothing.
IterationChangedNothing ==
  /\ i = at
  /\ (at + 1) \notin consumed
  /\ flags = before.flags
  /\ positional = before.positional

(* C6: a token --N without '=' naming a registered non-boolean flag,       *)
(* followed by a token that begins with '-' or by no token, makes Parse    *)
(* return MissingValue for N; the following token is not consumed and the  *)
(* flag's value and set marker are left as they were.                      *)
C6_LongNeedsNonDashValue ==
  ExaminedAsFlag =>
    \A n \in DOMAIN index :
      ( /\ argv[at] = Long(n)
        /\ before.flags[index[n]].value.kind # "bool"
        /\ (at + 1 = argc \/ At(argv[at + 1], 0) = "-") )
      => /\ Returned
         /\ result.kind = "MissingValue"
         /\ result.flag = n
         /\ IterationChangedNothing

\* "--port -9": MissingValue for port, with -9 still in the stream.
C6_Witness ==
  /\ Returned
  /\ result.kind = "MissingValue"
  /\ result.flag = PortName
  /\ argv[at] = Long(PortName)
  /\ at + 1 < argc
  /\ argv[at + 1] = Short("9")
  /\ AtDefault(PortFlag)

-----------------------------------------------------------------------------
(* C7: a two-character token -a whose alias resolves to a non-boolean flag *)
(* takes the next token as its value whenever there is one, whatever it    *)
(* is; that token is neither examined as a flag nor made a positional;     *)
(* only with no next token does Parse return MissingValue.                 *)
C7_ShortTakesAnyNext ==
  ExaminedAsFlag =>
    \A a \in DOMAIN short_index :
      ( /\ argv[at] = Short(a)
        /\ before.flags[short_index[a]].value.kind # "bool" )
      => LET ptr == short_index[a]
         IN  IF at + 1 < argc
               THEN LET r == ValueSet(before.flags[ptr].value, argv[at + 1])
                    IN  /\ (at + 1) \in consumed
                        /\ positional = before.positional
                        /\ IF r.ok
                             THEN /\ flags = Assign(before.flags, ptr, r.value)
                                  /\ i = at + 2
                                  /\ result.kind \in {"Pending", "None"}
                             ELSE /\ Returned
                                  /\ result.kind = "InvalidValue"
                                  /\ flags = before.flags
               ELSE /\ Returned
                    /\ result.kind = "MissingValue"
                    /\ result.flag = flags[ptr].name
                    /\ IterationChangedNothing

\* "-p -9": the token -9 became port's value, minus nine.
C7_Witness ==
  /\ Returned
  /\ result = ResultOk
  /\ ArgsSeq = <<ProgName, Short("p"), Short("9")>>
  /\ consumed = {2}
  /\ flags[PortFlag].set
  /\ flags[PortFlag].value = IntVal(TRUE, Nine)
  /\ positional = <<>>

-----------------------------------------------------------------------------
\* Token tok is the bare long name or the bare alias of the boolean flag ptr.
BareBool(tok, ptr, fl) ==
  /\ fl[ptr].value.kind = "bool"
  /\ ~IsHelpToken(tok)
  /\ \/ \E n \in DOMAIN index : index[n] = ptr /\ tok = Long(n)
     \/ \E a \in DOMAIN short_index : short_index[a] = ptr /\ tok = Short(a)

-----------------------------------------------------------------------------
\* A token of a recognised flag form: --x.. or -x..
IsFlagForm(tok) ==
  \/ Len(tok) > 2 /\ tok[1] = "-" /\ tok[2] = "-"
  \/ Len(tok) > 1 /\ tok[1] = "-" /\ tok[2] # "-"

\* Token k of the last call was not consumed as a flag token, as a flag's
\* value or as the terminator.
NotConsumed(k) ==
  /\ k \notin consumed
  /\ k # termAt
  /\ ~(IsFlagForm(argv[k]) /\ (termAt = 0 \/ k < termAt))

\* The tokens k..argc-1 that were not consumed, in order.
RECURSIVE RestFrom(_)
RestFrom(k) ==
  IF k >= argc THEN <<>>
  ELSE IF NotConsumed(k) THEN <<argv[k]>> \o RestFrom(k + 1)
  ELSE RestFrom(k + 1)

(* C9: after a successful Parse the positional list is exactly the         *)
(* in-order sequence of the tokens from index 1 on that were not consumed  *)
(* as a flag token, as a flag's value or as the first -- terminator,       *)
(* the empty token and the lone - token included.                          *)
C9_PositionalsAreTheRest ==
  (Returned /\ result.kind = "None") => positional = RestFrom(1)

-----------------------------------------------------------------------------
\* The text of a long token after "--" and before its first '=', if any.
LongNameOf(tok) ==
  LET body == Tail(Tail(tok))
      n == CHOOSE m \in 0..Len(body) :
             /\ \A j \in 1..m : body[j] # "="
             /\ (m = Len(body) \/ body[m + 1] = "=")
  IN  SubSeq(body, 1, n)

(* C10: a long token whose name (after -- and before the first '=') is not *)
(* in the name index makes Parse return UnknownFlag naming that text; a    *)
(* short token whose alias is not in the alias index makes Parse return    *)
(* UnknownFlag naming that character; no token is consumed and no flag or  *)
(* positional changes, also when the token is the last one.                *)
C10_UnknownFlagNamesToken ==
  (ExaminedAsFlag /\ termAt = 0 /\ ~IsHelpArg(argv[at])) =>
    LET tok == argv[at]
    IN  /\ ( /\ Len(tok) > 2 /\ tok[1] = "-" /\ tok[2] = "-"
             /\ LongNameOf(tok) \notin DOMAIN index )
           => /\ Returned
              /\ result.kind = "UnknownFlag"
              /\ result.flag = LongNameOf(tok)
              /\ IterationChangedNothing
        /\ ( /\ Len(tok) > 1 /\ tok[1] = "-" /\ tok[2] # "-"
             /\ tok[2] \notin DOMAIN short_index )
           => /\ Returned
              /\ result.kind = "UnknownFlag"
              /\ result.flag = <<tok[2]>>
              /\ IterationChangedNothing

\* "--bogus=9" as the last token: UnknownFlag naming "bogus".
C10_Witness ==
  /\ Returned
  /\ result.kind = "UnknownFlag"
  /\ result.flag = BogusName
  /\ argv[at] = LongEq(BogusName, Nine)
  /\ at = argc - 1

-----------------------------------------------------------------------------
\* Token tok is of the long form (--x..) or of the short form (-x..).
IsLongForm(tok) == Len(tok) > 2 /\ tok[1] = "-" /\ tok[2] = "-"
IsShortForm(tok) == Len(tok) > 1 /\ tok[1] = "-" /\ tok[2] # "-"

\* The last iteration examined a flag token that resolves to flag k.
ResolvesTo(k) ==
  /\ ExaminedAsFlag /\ termAt = 0 /\ ~IsHelpArg(argv[at])
  /\ \/ /\ IsLongForm(argv[at])
        /\ LongNameOf(argv[at]) \in DOMAIN index
        /\ index[LongNameOf(argv[at])] = k
     \/ /\ IsShortForm(argv[at])
        /\ argv[at][2] \in DOMAIN short_index
        /\ short_index[argv[at][2]] = k

\* The flag token of the last iteration carries a value text: attached
\* (after '=' or after the alias) or the next token, which it consumed.
HasValueText ==
  \/ (at + 1) \in consumed
  \/ IsLongForm(argv[at]) /\ Len(LongNameOf(argv[at])) + 2 < Len(argv[at])
  \/ IsShortForm(argv[at]) /\ Len(argv[at]) > 2

ValueText ==
  IF (at + 1) \in consumed THEN argv[at + 1]
  ELSE IF IsLongForm(argv[at])
    THEN SubSeq(argv[at], Len(LongNameOf(argv[at])) + 4, Len(argv[at]))
  ELSE SubSeq(argv[at], 3, Len(argv[at]))

\* Sequence s ends with the sequence e.
EndsWith(s, e) ==
  Len(e) <= Len(s) /\ SubSeq(s, Len(s) - Len(e) + 1, Len(s)) = e

(* C11: when the value text resolved for a flag is rejected by the         *)
(* conversion of the flag's kind, Parse returns InvalidValue whose flag    *)
(* identifier is the flag's long name, on the long and on the short path,  *)
(* and whose message embeds the conversion's error text; the token leaves  *)
(* the flag's set marker and value as they were.                           *)
C11_InvalidValueNamesFlag ==
  \A k \in 1..Len(flags) :
    (ResolvesTo(k) /\ HasValueText) =>
      LET r == ValueSet(before.flags[k].value, ValueText)
      IN  IF r.ok
            THEN /\ flags = Assign(before.flags, k, r.value)
                 /\ result.kind \in {"Pending", "None"}
            ELSE /\ Returned
                 /\ result.kind = "InvalidValue"
                 /\ result.flag = flags[k].name
                 /\ EndsWith(result.message, r.err)
                 /\ flags = before.flags
                 /\ positional = before.positional

\* "-p false": InvalidValue naming port, "not an integer", port untouched.
C11_Witness ==
  /\ Returned
  /\ result.kind = "InvalidValue"
  /\ result.flag = PortName
  /\ EndsWith(result.message, <<"not an integer">>)
  /\ argv[at] = Short("p")
  /\ argv[at + 1] = FalseWord
  /\ AtDefault(PortFlag)

-----------------------------------------------------------------------------
(* C12: the first error of the left-to-right scan ends Parse at that       *)
(* token: the erroneous token changes no flag and no positional, the       *)
(* flags and positionals are those the tokens before it produced without   *)
(* error, and the tokens after it have no influence on the result.         *)
C12_FirstErrorAborts ==
  (Returned /\ result.kind \in ErrorKinds) =>
    /\ flags = before.flags
    /\ positional = before.positional
    /\ LET pre == ParseFresh(registered, SubSeq(ArgsSeq, 1, at))
       IN  /\ pre.result = ResultOk
           /\ pre.flags = flags
           /\ pre.positional = positional
    /\ ParseFresh(registered, SubSeq(ArgsSeq, 1, i + 1)).result = result

\* "false -d --bogus": UnknownFlag at the third token, with the positional
\* and debug's assignment of the first two tokens kept.
C12_Witness ==
  /\ Returned
  /\ result.kind = "UnknownFlag"
  /\ ArgsSeq = <<ProgName, FalseWord, Short("d"), Long(BogusName)>>
  /\ positional = <<FalseWord>>
  /\ flags[DebugFlag].set
  /\ flags[DebugFlag].value = BoolVal(TRUE)

-----------------------------------------------------------------------------
\* The flag a name resolves to in the name index.
Resolved(name) == flags[index[name]]

(* C13 as stated: Get<T>(fs, name) never signals an error; it returns the  *)
(* current value when name is registered with kind T and T's zero value    *)
(* when name is absent or registered with another kind.                    *)
C13_GetNeverSignals ==
  call.op = "Get" =>
    /\ call.ret.outcome = "value"
    /\ call.ret.value =
         IF call.name \in DOMAIN index /\ Resolved(call.name).value.kind = call.T
           THEN Resolved(call.name).value
           ELSE Zero(call.T)

(* C13 amended: Get<T>(fs, name) returns T's zero value when name is       *)
(* absent and the current value when name is registered with kind T; when  *)
(* name is registered with another kind it throws std::bad_cast.           *)
C13_GetThrowsOnMismatch ==
  call.op = "Get" =>
    IF call.name \notin DOMAIN index
      THEN call.ret = [outcome |-> "value", value |-> Zero(call.T)]
    ELSE IF Resolved(call.name).value.kind = call.T
      THEN call.ret = [outcome |-> "value", value |-> Resolved(call.name).value]
    ELSE call.ret = [outcome |-> "bad_cast"]

\* Get<bool>(fs, "port") after a Parse that assigned port.
C13_Witness ==
  /\ Returned
  /\ call.op = "Get"
  /\ call.name = PortName
  /\ call.T = "bool"
  /\ call.ret.outcome = "bad_cast"
  /\ flags[PortFlag].set

-----------------------------------------------------------------------------
(* C14: after a Parse call, whatever it returned, IsSet(name) is true      *)
(* exactly when name is registered and a token processed during that most  *)
(* recent Parse assigned the flag the name index resolves to (assigned     *)
(* collects the flags the iterations of the current Parse call changed,    *)
(* and starts empty at each call) - also when the value assigned equals    *)
(* the default; IsSet of an unregistered name is false.                    *)
C14_IsSetIffAssignedThisParse ==
  (Returned /\ call.op = "IsSet") =>
    /\ call.ret = (call.name \in DOMAIN index /\ index[call.name] \in assigned)
    /\ call.name \notin DOMAIN index => call.ret = FALSE
    /\ call.ret => Resolved(call.name).set

\* The second Parse call assigned debug its default value, the one before
\* had left something behind: IsSet("debug") is true.
C14_Witness ==
  /\ Returned
  /\ prior.kind # "NoParse"
  /\ prior.dirty
  /\ call = [op |-> "IsSet", name |-> DebugName, ret |-> TRUE]
  /\ flags[DebugFlag].value = flags[DebugFlag].default_value
  /\ ~flags[PortFlag].set
  /\ ArgsSeq = <<ProgName, LongEq(DebugName, FalseWord)>>

-----------------------------------------------------------------------------
\* No Parse call has been made on the FlagSet yet.
BeforeAnyParse == pc = "ready" /\ prior.kind = "NoParse"

(* C15: in every state reached by registrations only, before any Parse     *)
(* call, every registered flag (the auto-registered help flag included) is *)
(* unset and holds its default value, and IsSet of every name is false.    *)
C15_FreshFlagsUnsetAtDefault ==
  BeforeAnyParse =>
    /\ \A k \in 1..Len(flags) : AtDefault(k)
    /\ \A r \in RegMenu : ~IsSet(flags, index, r.name)
    /\ ~IsSet(flags, index, HelpName)

\* Two registrations of the name "port" and no Parse call yet.
C15_Witness ==
  /\ BeforeAnyParse
  /\ Len(registered) = 2
  /\ registered[1].name = PortName
  /\ registered[2].name = PortName
  /\ Len(flags) = 3

-----------------------------------------------------------------------------
(* C18: in every state reached by registrations and Parse calls in any     *)
(* order, each flag's current value and default value have the kind the    *)
(* flag was registered with, and the default value is the default given at *)
(* registration (for the help flag: the boolean false of the constructor). *)
C18_KindsAndDefaultsFixed ==
  /\ Len(flags) = Len(registered) + 1
  /\ flags[1].value.kind = "bool"
  /\ flags[1].default_value = BoolVal(FALSE)
  /\ \A k \in 1..Len(registered) :
       /\ flags[k + 1].value.kind = registered[k].defaultVal.kind
       /\ flags[k + 1].default_value = registered[k].defaultVal

\* After a failed Parse call, a successful one has given a flag a value
\* other than its default.
C18_Witness ==
  /\ Returned
  /\ prior.kind = "InvalidValue"
  /\ result.kind = "None"
  /\ Len(registered) = 2
  /\ \E k \in 1..Len(flags) :
       flags[k].set /\ flags[k].value # flags[k].default_value

-----------------------------------------------------------------------------
\* The position in flags_ of the last flag registered with the name, and
\* with the alias.
LastNamed(name) ==
  CHOOSE k \in 1..Len(flags) :
    /\ flags[k].name = name
    /\ \A j \in (k + 1)..Len(flags) : flags[j].name # name
LastAliased(c) ==
  CHOOSE k \in 1..Len(flags) :
    /\ flags[k].short_name = c
    /\ \A j \in (k + 1)..Len(flags) : flags[j].short_name # c

\* The state is the one Parse's pre-pass left: the loop has not run yet.
AfterPrePass == pc = "loop" /\ at = 0

\* The last iteration examined a long-form token other than the help token,
\* and nothing was registered since.
LongTokenStep ==
  /\ ExaminedAsFlag
  /\ IsLongForm(argv[at])
  /\ ~IsHelpArg(argv[at])
  /\ Len(flags) = Len(before.flags)

(* C19: every registration stays in the flag sequence in declaration       *)
(* order, also when its name or alias was registered before; the name      *)
(* index and the alias index resolve to the most recently registered flag  *)
(* of the name or alias, and Lookup and IsSet answer for that flag; each   *)
(* Parse resets every flag, the earlier registrations included, to its own *)
(* default; a --name token changes no flag other than the last one         *)
(* registered with the name.                                               *)
C19_LastRegistrationWins ==
  /\ Len(flags) = Len(registered) + 1
  /\ \A k \in 1..Len(registered) :
       /\ flags[k + 1].name = registered[k].name
       /\ flags[k + 1].short_name = registered[k].short_name
  /\ DOMAIN index = { flags[k].name : k \in 1..Len(flags) }
  /\ DOMAIN short_index = { flags[k].short_name : k \in 1..Len(flags) } \ {NoShort}
  /\ \A name \in DOMAIN index :
       /\ index[name] = LastNamed(name)
       /\ Lookup(index, name) = LastNamed(name)
       /\ IsSet(flags, index, name) = flags[LastNamed(name)].set
  /\ \A c \in DOMAIN short_index : short_index[c] = LastAliased(c)
  /\ AfterPrePass => \A k \in 1..Len(flags) : AtDefault(k)
  /\ LongTokenStep =>
       \A k \in 1..Len(flags) :
         flags[k] # before.flags[k] => k = LastNamed(LongNameOf(argv[at]))

\* Int("port", 8080, 'p') then String("port", "fast"): after a Parse that
\* left something behind, "--port=9" gives the second flag the text "9" and
\* leaves the first at 8080, unset.
C19_Witness ==
  /\ Returned
  /\ result.kind = "None"
  /\ prior.dirty
  /\ Len(registered) = 2
  /\ registered[1].defaultVal.kind = "int"
  /\ registered[2].defaultVal.kind = "string"
  /\ ArgsSeq = <<ProgName, LongEq(PortName, Nine)>>
  /\ flags[3].value = StringVal(Nine)
  /\ IsSet(flags, index, PortName)
  /\ AtDefault(2)

-----------------------------------------------------------------------------
\* The whole text is an optional '-' followed by one or more decimal digits.
UnsignedPart(text) ==
  IF text # <<>> /\ Head(text) = "-" THEN Tail(text) ELSE text
WellFormedInt(text) ==
  /\ UnsignedPart(text) # <<>>
  /\ \A k \in 1..Len(UnsignedPart(text)) : IsDigit(UnsignedPart(text)[k])
\* The integer a well-formed text denotes, and whether it is in
\* [-2^63, 2^63 - 1].
IntOf(text) == IntVal(text # <<>> /\ Head(text) = "-", UnsignedPart(text))
InInt64Range(text) ==
  FitsInt64(text # <<>> /\ Head(text) = "-", StripZeros(UnsignedPart(text)))

(* C16 as stated: an integer flag given a value text is assigned exactly   *)
(* when the whole text is a well-formed base-10 signed integer in the      *)
(* signed 64-bit range, and then holds that integer; for any other text    *)
(* (digits followed by other characters included) Parse returns            *)
(* InvalidValue and the stored integer is unchanged.                       *)
C16_IntSetOnlyFromWholeText ==
  \A k \in 1..Len(flags) :
    (ResolvesTo(k) /\ HasValueText /\ before.flags[k].value.kind = "int") =>
      IF WellFormedInt(ValueText) /\ InInt64Range(ValueText)
        THEN /\ flags[k].value = IntOf(ValueText)
             /\ flags[k].set
             /\ result.kind \in {"Pending", "None"}
        ELSE /\ Returned
             /\ result.kind = "InvalidValue"
             /\ flags[k].value = before.flags[k].value

-----------------------------------------------------------------------------
(* C17 as stated: for a flag whose value was set from text, ToString of    *)
(* the value, given to Set of the same kind, succeeds and yields the same  *)
(* value.                                                                  *)
C17_ToStringSetRoundTrip ==
  (call.op = "ToString" /\ flags[call.flag].set) =>
    LET r == ValueSet(flags[call.flag].value, call.ret)
    IN  r.ok /\ r.value = flags[call.flag].value

-----------------------------------------------------------------------------
\* What holds of the scan at every moment of a Parse call: it has read no
\* token past argv[argc - 1], and a return is an error or help return, or
\* the success return (kind None) at the end of the token stream.
ScanInBounds ==
  /\ pc = "loop" => i <= argc
  /\ InParse =>
       /\ at < argc
       /\ at \notin consumed
       /\ \A c \in consumed : c >= 1 /\ c < argc
  /\ Returned =>
       \/ result.kind \in ErrorKinds \cup {"HelpRequested"}
       \/ result.kind = "None" /\ i = argc

\* One step of the loop: the token examined is a new one, after every token
\* examined or consumed before; a value it consumes is the token directly
\* after it; the scan index has moved forward if the loop goes on.
ScanAdvances ==
  (pc = "loop" /\ i < argc) =>
    /\ at' = i
    /\ at' > at
    /\ \A c \in consumed : c < at'
    /\ consumed' \ consumed \subseteq {at' + 1}
    /\ consumed \subseteq consumed'
    /\ pc' = "loop" => i' > i
    /\ pc' = "returned" =>
         /\ i' >= i
         /\ result'.kind \in ErrorKinds \cup {"HelpRequested"}

\* The loop test failed: the success return.
ScanEnds ==
  (pc = "loop" /\ ~(i < argc)) => (pc' = "returned" /\ result' = ResultOk)

(* C20: Parse terminates on every argument list: the scan index strictly   *)
(* increases at every step of the loop, each token is examined or consumed *)
(* at most once, no token past the last is read, and a Parse call that has *)
(* begun returns - at the first error or help signal, or with kind None    *)
(* once the scan index has reached argc.                                   *)
C20_ParseTerminates ==
  /\ []ScanInBounds
  /\ [][ScanAdvances /\ ScanEnds]_vars
  /\ (pc = "loop") ~> Returned

\* "--port 9 false": a value consumed by lookahead, a positional, and the
\* success return at the end of the list.
C20_Witness ==
  /\ Returned
  /\ result.kind = "None"
  /\ ArgsSeq = <<ProgName, Long(PortName), Nine, FalseWord>>
  /\ consumed = {2}
  /\ at = 3
  /\ i = argc

-----------------------------------------------------------------------------
-----------------------------------------------------------------------------
(* C22: assignments to one flag in one argument list are applied left to   *)
(* right.  A token that resolves (by long name or by alias) to a flag an   *)
(* earlier token of the same Parse call has assigned replaces the flag's   *)
(* value by the value of its own text and leaves it marked set; if its     *)
(* text is rejected, Parse returns InvalidValue and the flag keeps the     *)
(* value of its last successful assignment and stays marked set; a token   *)
(* that does not resolve to the flag leaves it as it was, so that at the   *)
(* return the flag holds the value of the last successful assignment.      *)
C22_LastAssignmentWins ==
  \A k \in 1..Len(flags) :
    /\ (ResolvesTo(k) /\ before.flags[k].set /\ HasValueText) =>
         LET r == ValueSet(before.flags[k].value, ValueText)
         IN  IF r.ok
               THEN /\ flags[k].value = r.value
                    /\ flags[k].set
                    /\ result.kind \in {"Pending", "None"}
               ELSE /\ Returned
                    /\ result.kind = "InvalidValue"
                    /\ flags[k].value = before.flags[k].value
                    /\ flags[k].set
    /\ (InParse /\ ~ResolvesTo(k)) => flags[k] = before.flags[k]
    /\ (Returned /\ k \in assigned) => flags[k].set

\* "--port=9 -p8 --port=false": port is assigned 9, then 8 through its
\* alias; the third assignment fails and port is left at 8, marked set.
C22_Witness ==
  /\ Returned
  /\ result.kind = "InvalidValue"
  /\ ArgsSeq = <<ProgName, LongEq(PortName, Nine), ShortV("p", Eight),
                 LongEq(PortName, FalseWord)>>
  /\ flags[PortFlag].value = IntVal(FALSE, Eight)
  /\ flags[PortFlag].set

====
